---- MODULE Spec2Model ----
(***************************************************************************)
(* koyomi-bot (src/main.py): one run of main() as a state machine, and the *)
(* pure resolver find_current_ko / _find_ko_in_sekki as operators.         *)
(*                                                                         *)
(* A longitude is a Python float (IEEE 754 binary64).  A float is held as  *)
(* its exact value, a signed integer count of 2^-FracBits degrees, the     *)
(* magnitude a sequence of 15-bit limbs (least significant first).  The    *)
(* code's float operations are computed as IEEE does: the exact result     *)
(* rounded to 53 significant bits, ties to even.  The floats held are      *)
(* those of magnitude 2^-7 to 2^11, and 0.                                 *)
(* Instants and wall-clock times are whole hours.                          *)
(***************************************************************************)
EXTENDS Integers, Sequences, FiniteSets

VARIABLES
    file,       \* data/sekki.json as found on disk (environment)
    clock,      \* the absolute instant of the run, hours since the epoch (UTC)
    webhook,    \* whether SLACK_WEBHOOK_URL is set (environment)
    pc,         \* position in main()
    now,        \* main's `now`
    data,       \* main's `data`
    t,          \* the instant handed to the ephemeris in get_sun_longitude
    provider,   \* outcome of the ephemeris lookup: "idle", "ok" or "failed"
    longitude,  \* main's `longitude`
    result,     \* what find_current_ko returned (sekki, ko, ko_index)
    frame,      \* the locals of _find_ko_in_sekki when it returned
    message,    \* main's `message`
    http,       \* outcome of requests.post
    success,    \* main's `success`
    posts,      \* number of HTTP POSTs attempted
    calls,      \* the functions main has called, in order
    out,        \* the lines printed so far
    raised      \* the exception that left main ("" while there is none)

vars == <<file, clock, webhook, pc, now, data, t, provider, longitude, result,
          frame, message, http, success, posts, calls, out, raised>>

(***************************************************************************)
(* Bounds of the model                                                     *)
(***************************************************************************)
GridBits == 7          \* table starts are multiples of 2^-GridBits degree
Turns == 1             \* out-of-range inputs span this many turns each side
MaxClock == 2          \* latest instant of a run
ProviderStride == 320  \* main samples the provider's longitudes at this step
ResolveStride == 64    \* find_current_ko alone is sampled at this step

\* ticks per degree
Unit == 2 ^ GridBits

(***************************************************************************)
(* Program constants                                                       *)
(***************************************************************************)
Circle == 360
NumSekki == 24
KoParts == 3
MaxKoIndex == 2
JstOffset == 9
UtcOffset == 0
HttpOk == 200
DayHours == 24

FullTurn == Circle * Unit

(***************************************************************************)
(* Python helpers                                                          *)
(***************************************************************************)
Min(a, b) == IF a < b THEN a ELSE b

Max(a, b) == IF a < b THEN b ELSE a

\* whether seq[idx] is a valid Python subscript (negative indices count from the end)
PyIndexOk(seq, idx) == idx >= -Len(seq) /\ idx < Len(seq)

\* seq[idx] with a 0-based, possibly negative, Python index
PyIndex(seq, idx) == IF idx >= 0 THEN seq[idx + 1] ELSE seq[Len(seq) + idx + 1]

NoFrame == [set |-> FALSE]

Return(sekki, ko, ko_index) ==
    [raised |-> "", sekki |-> sekki, ko |-> ko, ko_index |-> ko_index,
     frame |-> NoFrame]

Raise(e) == [raised |-> e]

(***************************************************************************)
(* Natural numbers of any size: sequences of limbs, least significant      *)
(* first, without leading zero limbs (0 is the empty sequence)             *)
(***************************************************************************)
LimbBits == 15
Base == 2 ^ LimbBits

Limb(a, i) == IF i <= Len(a) THEN a[i] ELSE 0

RECURSIVE Trim(_)
Trim(a) ==
    IF a = <<>> THEN a
    ELSE IF a[Len(a)] = 0 THEN Trim(SubSeq(a, 1, Len(a) - 1))
    ELSE a

RECURSIVE BFromInt(_)
BFromInt(n) == IF n = 0 THEN <<>> ELSE <<n % Base>> \o BFromInt(n \div Base)

RECURSIVE AddFrom(_, _, _, _)
AddFrom(a, b, i, carry) ==
    IF i > Max(Len(a), Len(b))
    THEN IF carry = 0 THEN <<>> ELSE <<carry>>
    ELSE LET s == Limb(a, i) + Limb(b, i) + carry
         IN  <<s % Base>> \o AddFrom(a, b, i + 1, s \div Base)

BAdd(a, b) == AddFrom(a, b, 1, 0)

RECURSIVE SubFrom(_, _, _, _)
SubFrom(a, b, i, borrow) ==
    IF i > Len(a) THEN <<>>
    ELSE LET s == a[i] - Limb(b, i) - borrow
         IN  IF s < 0
             THEN <<s + Base>> \o SubFrom(a, b, i + 1, 1)
             ELSE <<s>> \o SubFrom(a, b, i + 1, 0)

\* a - b, for a >= b
BSub(a, b) == Trim(SubFrom(a, b, 1, 0))

RECURSIVE CmpFrom(_, _, _)
CmpFrom(a, b, i) ==
    IF i = 0 THEN 0
    ELSE IF a[i] < b[i] THEN -1
    ELSE IF a[i] > b[i] THEN 1
    ELSE CmpFrom(a, b, i - 1)

\* -1, 0 or 1 as a < b, a = b or a > b
BCmp(a, b) ==
    IF Len(a) < Len(b) THEN -1
    ELSE IF Len(a) > Len(b) THEN 1
    ELSE CmpFrom(a, b, Len(a))

RECURSIVE MulFrom(_, _, _, _)
MulFrom(a, c, i, carry) ==
    IF i > Len(a)
    THEN IF carry = 0 THEN <<>> ELSE <<carry>>
    ELSE LET s == a[i] * c + carry
         IN  <<s % Base>> \o MulFrom(a, c, i + 1, s \div Base)

\* a * c, for 0 <= c < Base
BMulSmall(a, c) == Trim(MulFrom(a, c, 1, 0))

RECURSIVE DivFrom(_, _, _, _)
\* the limbs i..1 of the quotient, then the remainder as last element
DivFrom(a, c, i, rem) ==
    IF i = 0 THEN <<rem>>
    ELSE LET s == rem * Base + a[i]
         IN  DivFrom(a, c, i - 1, s % c) \o <<s \div c>>

\* quotient and remainder of a by c, for 0 < c <= Base
BDivSmall(a, c) ==
    LET d == DivFrom(a, c, Len(a), 0)
    IN  [q |-> Trim(Tail(d)), r |-> d[1]]

\* a * 2^n
BShl(a, n) ==
    IF a = <<>> THEN a
    ELSE BMulSmall([i \in 1..(n \div LimbBits) |-> 0] \o a, 2 ^ (n % LimbBits))

\* floor(a / 2^n)
BShr(a, n) ==
    IF n \div LimbBits >= Len(a) THEN <<>>
    ELSE BDivSmall(SubSeq(a, (n \div LimbBits) + 1, Len(a)), 2 ^ (n % LimbBits)).q

RECURSIVE IntBitLen(_)
IntBitLen(n) == IF n = 0 THEN 0 ELSE 1 + IntBitLen(n \div 2)

\* number of bits of a
BBitLen(a) ==
    IF a = <<>> THEN 0 ELSE LimbBits * (Len(a) - 1) + IntBitLen(a[Len(a)])

BIsOdd(a) == a # <<>> /\ a[1] % 2 = 1

BOne == <<1>>

RECURSIVE DivLoop(_, _, _, _)
DivLoop(a, b, i, k) ==
    IF i < 0 THEN [q |-> k, r |-> a]
    ELSE LET bi == BShl(b, i)
         IN  IF BCmp(a, bi) >= 0
             THEN DivLoop(BSub(a, bi), b, i - 1, k + 2 ^ i)
             ELSE DivLoop(a, b, i - 1, k)

\* quotient (an integer below 2^30) and remainder of a by b > 0
BDivMod(a, b) == DivLoop(a, b, Max(0, BBitLen(a) - BBitLen(b)), 0)

(***************************************************************************)
(* Floats: exact values, [neg, mag] with mag in units of 2^-FracBits       *)
(***************************************************************************)
FracBits == 64
MantBits == 53

Num(neg, mag) == [neg |-> neg /\ mag # <<>>, mag |-> mag]

Zero == Num(FALSE, <<>>)

FNeg(x) == Num(~x.neg, x.mag)

\* exact comparison of two values
SCmp(x, y) ==
    IF x.neg /\ ~y.neg THEN -1
    ELSE IF ~x.neg /\ y.neg THEN 1
    ELSE IF x.neg THEN BCmp(y.mag, x.mag)
    ELSE BCmp(x.mag, y.mag)

SLt(x, y) == SCmp(x, y) < 0
SLe(x, y) == SCmp(x, y) <= 0

\* exact sum
SAdd(x, y) ==
    IF x.neg = y.neg THEN Num(x.neg, BAdd(x.mag, y.mag))
    ELSE IF BCmp(x.mag, y.mag) >= 0 THEN Num(x.neg, BSub(x.mag, y.mag))
    ELSE Num(y.neg, BSub(y.mag, x.mag))

SSub(x, y) == SAdd(x, FNeg(y))

\* the magnitude q * 2^d + (rest, sticky) rounded to q or q + 1: to nearest,
\* ties to even
RoundUp(q, rest, half, sticky) ==
    \/ BCmp(rest, half) > 0
    \/ BCmp(rest, half) = 0 /\ (sticky \/ BIsOdd(q))

\* a magnitude (with bits below it when sticky) rounded to MantBits bits
RoundMag(m, sticky) ==
    IF BBitLen(m) <= MantBits THEN m
    ELSE LET d == BBitLen(m) - MantBits
             q == BShr(m, d)
             rest == BSub(m, BShl(q, d))
         IN  IF RoundUp(q, rest, BShl(BOne, d - 1), sticky)
             THEN BShl(BAdd(q, BOne), d)
             ELSE BShl(q, d)

\* the float nearest to an exact value
Round(x) == Num(x.neg, RoundMag(x.mag, FALSE))

\* x + y and x - y as floats
FAdd(x, y) == Round(SAdd(x, y))
FSub(x, y) == Round(SSub(x, y))

\* x / c as a float, for an integer 0 < c < Base
FDivSmall(x, c) ==
    LET d == BDivSmall(x.mag, c)
    IN  Num(x.neg, RoundMag(d.q, d.r # 0))

\* the exponent p of the floats just below the integer n >= 1: they lie in
\* [2^p, 2^(p+1))
ExpBelow(n) ==
    IF 2 ^ (IntBitLen(n) - 1) = n THEN IntBitLen(n) - 2 ELSE IntBitLen(n) - 1

\* int(x / y) for floats x and y # 0: the quotient rounded to a float, then
\* truncated toward zero.  With k = floor(|x| / |y|) the rounded quotient
\* reaches k + 1 exactly when it is at or above the midpoint of k + 1 and the
\* float before it.
IntQuot(x, y) ==
    LET d == BDivMod(x.mag, y.mag)
        gap == BSub(y.mag, d.r)
        k == IF d.r # <<>> /\
                BCmp(gap, BShr(y.mag, MantBits - ExpBelow(d.q + 1))) <= 0
             THEN d.q + 1
             ELSE d.q
    IN  IF x.neg = y.neg THEN k ELSE -k

\* the float of n / Unit degrees, n an integer
FromTicks(n) ==
    Num(n < 0, BShl(BFromInt(IF n < 0 THEN -n ELSE n), FracBits - GridBits))

\* the floats next to a float x > 0
FSucc(x) == Num(x.neg, BAdd(x.mag, BShl(BOne, BBitLen(x.mag) - MantBits)))

FPred(x) ==
    IF x.mag = BShl(BOne, BBitLen(x.mag) - 1)
    THEN Num(x.neg, BSub(x.mag, BShl(BOne, BBitLen(x.mag) - MantBits - 1)))
    ELSE Num(x.neg, BSub(x.mag, BShl(BOne, BBitLen(x.mag) - MantBits)))

Neighbours(x) == IF x = Zero THEN {x} ELSE {FPred(x), x, FSucc(x)}

\* 360 as the float it becomes in (360 - sekki_lon)
C360 == FromTicks(FullTurn)

(***************************************************************************)
(* The season table                                                        *)
(***************************************************************************)
KoRecord(i, k) == [name |-> <<i, k>>]

Sekki(i, lon, nko) ==
    [name |-> i, longitude |-> lon, ko |-> [k \in 1..nko |-> KoRecord(i, k)]]

(***************************************************************************)
(* Contents of data/sekki.json considered.  A table is built from the      *)
(* start longitude of its first term, the widths of its terms and a        *)
(* rotation of the list; its start longitudes are multiples of 1 / Unit.   *)
(***************************************************************************)
SekkiWidth == 15 * Unit

\* 24 equal terms of 15 degrees
UniformCum(i) == SekkiWidth * i

\* unequal terms: some empty, widths of which a third is not a float
IrregularCum(i) == SekkiWidth * (i - (i % 2)) + (i \div 5) * 37

Cum(shape, i) == IF shape = "uniform" THEN UniformCum(i) ELSE IrregularCum(i)

StartOf(shape, a, r, j) == (a + Cum(shape, (j - 1 + r) % NumSekki)) % FullTurn

Table(shape, a, r) ==
    [sekki |-> [j \in 1..NumSekki |->
        Sekki(j, FromTicks(StartOf(shape, a, r, j)), KoParts)]]

\* the table the source's comments describe: 立春 at 315, then every 15 degrees
CanonicalStart == 315 * Unit
ShiftedStart == 725
\* the start that puts a term of width 30 + 37 / Unit degrees at longitude 0
AlignedStart == FullTurn - IrregularCum(9)
Canonical == Table("uniform", CanonicalStart, 0)

Rotations == {0, 11}

WellFormedTables ==
    { Table(shape, a, r) : shape \in {"uniform", "irregular"},
                           a \in {CanonicalStart, ShiftedStart, AlignedStart},
                           r \in Rotations }

\* the tables find_current_ko is checked on alone: each width pattern, each
\* start and each rotation occurs
ResolveTables ==
    { Table("uniform", CanonicalStart, 0), Table("uniform", ShiftedStart, 11),
      Table("irregular", CanonicalStart, 11), Table("irregular", ShiftedStart, 0),
      Table("irregular", AlignedStart, 0) }

\* tables that break the data contract
ShortTable == [sekki |-> SubSeq(Canonical.sekki, 1, NumSekki - 1)]
LongTable ==
    [sekki |-> Append(Canonical.sekki,
                      Sekki(NumSekki + 1, FromTicks(300 * Unit), KoParts))]
FewKoTable ==
    [sekki |-> [j \in 1..NumSekki |->
        Sekki(j, Canonical.sekki[j].longitude, IF j = 1 THEN KoParts - 1 ELSE KoParts)]]
ManyKoTable ==
    [sekki |-> [j \in 1..NumSekki |->
        Sekki(j, Canonical.sekki[j].longitude, IF j = 1 THEN KoParts + 1 ELSE KoParts)]]
FlatTable ==
    [sekki |-> [j \in 1..NumSekki |-> Sekki(j, FromTicks(CanonicalStart), KoParts)]]

MalformedTables == {ShortTable, LongTable, FewKoTable, ManyKoTable, FlatTable}

NoData == [sekki |-> <<>>]

Files ==
    { [kind |-> "ok", json |-> d] : d \in WellFormedTables \cup MalformedTables }
    \cup { [kind |-> "missing", json |-> NoData], [kind |-> "invalid", json |-> NoData] }

(***************************************************************************)
(* load_sekki_data                                                         *)
(***************************************************************************)
load_sekki_data(f) ==
    IF f.kind = "missing" THEN [raised |-> "FileNotFoundError", value |-> NoData]
    ELSE IF f.kind = "invalid" THEN [raised |-> "JSONDecodeError", value |-> NoData]
    ELSE [raised |-> "", value |-> f.json]

(***************************************************************************)
(* datetime                                                                *)
(***************************************************************************)
\* datetime.now(tz) at absolute instant c: the wall clock of that zone
datetime_now(offset, c) == [wall |-> c + offset, utcoffset |-> offset]

\* dt.replace(tzinfo=tz): the wall clock is kept, the zone is swapped
replace_tzinfo(dt, offset) == [wall |-> dt.wall, utcoffset |-> offset]

\* the absolute instant an aware datetime denotes (ts.from_datetime)
from_datetime(dt) == dt.wall - dt.utcoffset

\* date.strftime("%Y/%m/%d"): the day of the wall clock
strftime(dt) == dt.wall \div DayHours

(***************************************************************************)
(* _find_ko_in_sekki                                                       *)
(***************************************************************************)
\* span, as the float the code computes
Span(sekki_lon, next_sekki_lon) ==
    IF SLt(next_sekki_lon, sekki_lon)
    THEN FAdd(FSub(C360, sekki_lon), next_sekki_lon)
    ELSE FSub(next_sekki_lon, sekki_lon)

\* variant: the offset taken without regard to the wrap at 0
OffsetNoWrap(lon, sekki_lon, next_sekki_lon) == FSub(lon, sekki_lon)

\* offset, as the float the code computes
Offset(lon, sekki_lon, next_sekki_lon) ==
    IF SLt(next_sekki_lon, sekki_lon)
    THEN IF SLe(sekki_lon, lon)
         THEN FSub(lon, sekki_lon)
         ELSE FAdd(FSub(C360, sekki_lon), lon)
    ELSE FSub(lon, sekki_lon)

\* ko_span = span / 3
KoSpan(span) == FDivSmall(span, KoParts)

\* variant: the index without the clamp at 2
KoIndexNoClamp(offset, ko_span) == IntQuot(offset, ko_span)

\* ko_index = min(int(offset / ko_span), 2)
KoIndex(offset, ko_span) == Min(IntQuot(offset, ko_span), MaxKoIndex)

\* the result of _find_ko_in_sekki, with the values of its local variables
ReturnFrom(sekki, ko_index, span, offset, ko_span) ==
    [raised |-> "", sekki |-> sekki, ko |-> PyIndex(sekki.ko, ko_index),
     ko_index |-> ko_index,
     frame |-> [set |-> TRUE, span |-> span, offset |-> offset,
                ko_span |-> ko_span]]

find_ko_in_sekki(lon, sekki, next_sekki_lon) ==
    LET span == Span(sekki.longitude, next_sekki_lon)
        offset == Offset(lon, sekki.longitude, next_sekki_lon)
        ko_span == KoSpan(span)
    IN  IF ko_span = Zero THEN Raise("ZeroDivisionError")
        ELSE LET ko_index == KoIndex(offset, ko_span)
             IN  IF PyIndexOk(sekki.ko, ko_index)
                 THEN ReturnFrom(sekki, ko_index, span, offset, ko_span)
                 ELSE Raise("IndexError")

(***************************************************************************)
(* find_current_ko                                                         *)
(***************************************************************************)
\* variant: upper bound of a range included
InSekkiClosed(lon, sekki_lon, next_lon) ==
    IF SLt(next_lon, sekki_lon)
    THEN SLe(sekki_lon, lon) \/ SLe(lon, next_lon)
    ELSE SLe(sekki_lon, lon) /\ SLe(lon, next_lon)

\* variant: lower bound of a range excluded
InSekkiOpen(lon, sekki_lon, next_lon) ==
    IF SLt(next_lon, sekki_lon)
    THEN SLt(sekki_lon, lon) \/ SLt(lon, next_lon)
    ELSE SLt(sekki_lon, lon) /\ SLt(lon, next_lon)

\* the range test of one loop iteration
InSekki(lon, sekki_lon, next_lon) ==
    IF SLt(next_lon, sekki_lon)
    THEN SLe(sekki_lon, lon) \/ SLt(lon, next_lon)
    ELSE SLe(sekki_lon, lon) /\ SLt(lon, next_lon)

\* the value returned after the loop
Fallback(sekki_list) ==
    IF Len(sekki_list) = 0 \/ Len(sekki_list[1].ko) = 0
    THEN Raise("IndexError")
    ELSE Return(sekki_list[1], sekki_list[1].ko[1], 0)

\* 1-based position of sekki_list[(i + 1) % 24] for the term at 1-based position j
NextPos(j) == (j % NumSekki) + 1

RECURSIVE find_from(_, _, _)
\* the for loop, from the term at 1-based position j on
find_from(lon, sekki_list, j) ==
    IF j > Len(sekki_list) THEN Fallback(sekki_list)
    ELSE IF NextPos(j) > Len(sekki_list) THEN Raise("IndexError")
    ELSE LET sekki == sekki_list[j]
             next_lon == sekki_list[NextPos(j)].longitude
         IN  IF InSekki(lon, sekki.longitude, next_lon)
             THEN find_ko_in_sekki(lon, sekki, next_lon)
             ELSE find_from(lon, sekki_list, j + 1)

find_current_ko(lon, d) == find_from(lon, d.sekki, 1)

(***************************************************************************)
(* format_message                                                          *)
(***************************************************************************)
ko_names == <<"shoko", "jiko", "makko">>

format_message(date, sekki, ko, ko_index) ==
    IF PyIndexOk(ko_names, ko_index)
    THEN [raised |-> "", date_str |-> strftime(date), sekki |-> sekki.name,
          ko_name |-> PyIndex(ko_names, ko_index), ko |-> ko.name]
    ELSE Raise("IndexError")

(***************************************************************************)
(* post_to_slack                                                           *)
(***************************************************************************)
HttpOutcomes ==
    { [kind |-> "response", status |-> s] : s \in {HttpOk, 204, 404, 500} }
    \cup { [kind |-> "exception", status |-> 0] }

NoHttp == [kind |-> "none", status |-> 0]

\* variant: the exception of requests.post is not caught
post_to_slack_uncaught(o) ==
    IF o.kind = "exception"
    THEN [raised |-> "ConnectionError", value |-> FALSE, printed |-> <<>>]
    ELSE [raised |-> "", value |-> (o.status = HttpOk), printed |-> <<>>]

\* every Exception of requests.post is caught and turned into False
post_to_slack(o) ==
    IF o.kind = "exception"
    THEN [raised |-> "", value |-> FALSE, printed |-> <<"slack_error">>]
    ELSE [raised |-> "", value |-> (o.status = HttpOk), printed |-> <<>>]

(***************************************************************************)
(* The solar longitude provider (skyfield): a longitude in [0, 360), or a  *)
(* failure (no ephemeris file, no network)                                 *)
(***************************************************************************)
ProviderLongitudes ==
    { FromTicks(l) : l \in { n \in 0..(FullTurn - 1) : n % ProviderStride = 0 } }

ProviderOutcomes ==
    { [raised |-> "", degrees |-> l] : l \in ProviderLongitudes }
    \cup { [raised |-> "OSError", degrees |-> Zero] }

(***************************************************************************)
(* get_sun_longitude: the datetime's zone is replaced by UTC, the result   *)
(* is looked up at that instant; a failure of the provider propagates      *)
(***************************************************************************)
\* variant: a failure of the provider is swallowed and 0.0 returned
get_sun_longitude_swallow(dt, eph) ==
    IF eph.raised # ""
    THEN [raised |-> "", has_t |-> FALSE, t |-> 0, value |-> Zero]
    ELSE [raised |-> "", has_t |-> TRUE,
          t |-> from_datetime(replace_tzinfo(dt, UtcOffset)),
          value |-> eph.degrees]

\* the ephemeris is loaded first: when that fails the exception leaves the
\* function before any instant is built; otherwise the instant t is built
\* from dt and the longitude looked up at t
get_sun_longitude(dt, eph) ==
    IF eph.raised # ""
    THEN [raised |-> eph.raised, has_t |-> FALSE, t |-> 0, value |-> Zero]
    ELSE [raised |-> "", has_t |-> TRUE,
          t |-> from_datetime(replace_tzinfo(dt, UtcOffset)),
          value |-> eph.degrees]

(***************************************************************************)
(* main                                                                    *)
(***************************************************************************)
NoDatetime == [wall |-> 0, utcoffset |-> 0]
NoResult == [raised |-> "unset"]
NoMessage == [raised |-> "unset"]

Init ==
    /\ file \in Files
    /\ clock \in 0..MaxClock
    /\ webhook \in BOOLEAN
    /\ pc = "now"
    /\ now = NoDatetime
    /\ data = NoData
    /\ t = 0
    /\ provider = "idle"
    /\ longitude = Zero
    /\ result = NoResult
    /\ frame = NoFrame
    /\ message = NoMessage
    /\ http = NoHttp
    /\ success = FALSE
    /\ posts = 0
    /\ calls = <<>>
    /\ out = <<>>
    /\ raised = ""

\* jst = timezone(timedelta(hours=9)); now = datetime.now(jst)
Now ==
    /\ pc = "now"
    /\ now' = datetime_now(JstOffset, clock)
    /\ pc' = "load"
    /\ UNCHANGED <<file, clock, webhook, data, t, provider, longitude, result,
                   frame, message, http, success, posts, calls, out, raised>>

\* data = load_sekki_data()
LoadSekkiData ==
    /\ pc = "load"
    /\ LET r == load_sekki_data(file)
       IN  /\ calls' = Append(calls, "load_sekki_data")
           /\ IF r.raised # ""
              THEN /\ raised' = r.raised
                   /\ pc' = "crashed"
                   /\ data' = data
              ELSE /\ data' = r.value
                   /\ pc' = "sun"
                   /\ raised' = raised
    /\ UNCHANGED <<file, clock, webhook, now, t, provider, longitude, result,
                   frame, message, http, success, posts, out>>

\* longitude = get_sun_longitude(now), and the two prints after it
GetSunLongitude ==
    /\ pc = "sun"
    /\ calls' = Append(calls, "get_sun_longitude")
    /\ \E eph \in ProviderOutcomes :
          LET r == get_sun_longitude(now, eph)
          IN  /\ provider' = IF eph.raised # "" THEN "failed" ELSE "ok"
              /\ t' = IF r.has_t THEN r.t ELSE t
              /\ IF r.raised # ""
                 THEN /\ raised' = r.raised
                      /\ pc' = "crashed"
                      /\ UNCHANGED <<longitude, out>>
                 ELSE /\ longitude' = r.value
                      /\ out' = out \o <<"datetime", "longitude">>
                      /\ pc' = "find"
                      /\ raised' = raised
    /\ UNCHANGED <<file, clock, webhook, now, data, result, frame, message,
                   http, success, posts>>

\* sekki, ko, ko_index = find_current_ko(longitude, data), and the three prints
FindCurrentKo ==
    /\ pc = "find"
    /\ calls' = Append(calls, "find_current_ko")
    /\ LET r == find_current_ko(longitude, data)
       IN  IF r.raised # ""
           THEN /\ raised' = r.raised
                /\ pc' = "crashed"
                /\ UNCHANGED <<result, frame, out>>
           ELSE /\ result' = [raised |-> "", sekki |-> r.sekki, ko |-> r.ko,
                              ko_index |-> r.ko_index]
                /\ frame' = r.frame
                /\ out' = out \o <<"sekki", "ko", "emoji">>
                /\ pc' = "format"
                /\ raised' = raised
    /\ UNCHANGED <<file, clock, webhook, now, data, t, provider, longitude,
                   message, http, success, posts>>

\* message = format_message(now, sekki, ko, ko_index), and the print
FormatMessage ==
    /\ pc = "format"
    /\ calls' = Append(calls, "format_message")
    /\ LET m == format_message(now, result.sekki, result.ko, result.ko_index)
       IN  IF m.raised # ""
           THEN /\ raised' = m.raised
                /\ pc' = "crashed"
                /\ UNCHANGED <<message, out>>
           ELSE /\ message' = m
                /\ out' = Append(out, "message")
                /\ pc' = "post"
                /\ raised' = raised
    /\ UNCHANGED <<file, clock, webhook, now, data, t, provider, longitude,
                   result, frame, http, success, posts>>

\* the delivery, or its skip when no webhook URL is configured
PostToSlack ==
    /\ pc = "post"
    /\ IF webhook
       THEN \E o \in HttpOutcomes :
               LET r == post_to_slack(o)
               IN  /\ http' = o
                   /\ posts' = posts + 1
                   /\ calls' = Append(calls, "post_to_slack")
                   /\ IF r.raised # ""
                      THEN /\ raised' = r.raised
                           /\ pc' = "crashed"
                           /\ UNCHANGED <<success, out>>
                      ELSE /\ success' = r.value
                           /\ out' = out \o r.printed \o
                                     <<IF r.value THEN "slack_ok" ELSE "slack_failed">>
                           /\ pc' = "done"
                           /\ raised' = raised
       ELSE /\ out' = Append(out, "skipped")
            /\ pc' = "done"
            /\ UNCHANGED <<http, posts, calls, success, raised>>
    /\ UNCHANGED <<file, clock, webhook, now, data, t, provider, longitude,
                   result, frame, message>>

Next ==
    \/ Now
    \/ LoadSekkiData
    \/ GetSunLongitude
    \/ FindCurrentKo
    \/ FormatMessage
    \/ PostToSlack

Spec == Init /\ [][Next]_vars

(***************************************************************************)
(* find_current_ko alone: the call made from main, on every well-formed    *)
(* table of ResolveTables and on longitudes in range and out of range.     *)
(* In range: the multiples of ResolveStride / Unit degrees and, for each   *)
(* term of the table, its start and the two inner boundaries of its        *)
(* thirds, each with the floats just below and just above it; the doubles  *)
(* of the literals 319.9 and 329.99.  Out of range: whole degrees.         *)
(***************************************************************************)
\* the double 319.9 = 0x1.3fe6666666666p+8
Lit319_9 == Num(FALSE, <<0, 19648, 6553, 13107, 5118>>)

\* the double 329.99 = 0x1.49fd70a3d70a4p+8
Lit329_99 == Num(FALSE, <<0, 5248, 3932, 27525, 5279>>)

InRange(lon) == SLe(Zero, lon) /\ SLt(lon, C360)

\* a sum of longitudes brought back below 360
Turned(x) == IF SLe(C360, x) THEN FSub(x, C360) ELSE x

GridLongitudes ==
    UNION { Neighbours(FromTicks(l)) :
               l \in { n \in 0..(FullTurn - 1) : n % ResolveStride = 0 } }

\* the start of term j and the inner boundaries of its thirds
Boundaries(d, j) ==
    LET s == d.sekki[j].longitude
        ks == KoSpan(Span(s, d.sekki[NextPos(j)].longitude))
    IN  {s, Turned(FAdd(s, ks)), Turned(FAdd(s, FAdd(ks, ks)))}

BoundaryLongitudes(d) ==
    UNION { Neighbours(b) : b \in UNION { Boundaries(d, j) : j \in 1..NumSekki } }

InRangeLongitudes(d) ==
    { l \in GridLongitudes \cup BoundaryLongitudes(d)
            \cup {FPred(C360), Lit319_9, Lit329_99} : InRange(l) }

OutOfRangeLongitudes ==
    { FromTicks(g * Unit) :
         g \in ((-Circle * Turns)..(-1)) \cup (Circle..(Circle * (Turns + 1) - 1)) }

AllLongitudes(d) == InRangeLongitudes(d) \cup OutOfRangeLongitudes

InitResolve ==
    /\ file \in { f \in Files : f.json \in ResolveTables }
    /\ clock = 0
    /\ webhook = FALSE
    /\ pc = "find"
    /\ now = datetime_now(JstOffset, clock)
    /\ data = file.json
    /\ t = from_datetime(replace_tzinfo(now, UtcOffset))
    /\ provider = "ok"
    /\ longitude \in AllLongitudes(file.json)
    /\ result = NoResult
    /\ frame = NoFrame
    /\ message = NoMessage
    /\ http = NoHttp
    /\ success = FALSE
    /\ posts = 0
    /\ calls = <<"load_sekki_data", "get_sun_longitude">>
    /\ out = <<"datetime", "longitude">>
    /\ raised = ""

NextResolve == FindCurrentKo

SpecResolve == InitResolve /\ [][NextResolve]_vars

(***************************************************************************)
(* Vocabulary of the properties                                            *)
(***************************************************************************)
Positions == 1..NumSekki

Succ(j) == IF j = NumSekki THEN 1 ELSE j + 1

Pred(j) == IF j = 1 THEN NumSekki ELSE j - 1

Start(d, j) == d.sekki[j].longitude

\* the structural contract of the table: 24 terms of 3 micro-seasons
StructureOk(d) ==
    /\ Len(d.sekki) = NumSekki
    /\ \A j \in 1..Len(d.sekki) : Len(d.sekki[j].ko) = KoParts

\* the positions whose start longitude exceeds their successor's
Descents(d) == { j \in Positions : SLt(Start(d, Succ(j)), Start(d, j)) }

WellFormed(d) == StructureOk(d) /\ Cardinality(Descents(d)) = 1

\* the activity predicate of term j
Active(d, j, lon) ==
    IF SLe(Start(d, j), Start(d, Succ(j)))
    THEN SLe(Start(d, j), lon) /\ SLt(lon, Start(d, Succ(j)))
    ELSE SLe(Start(d, j), lon) \/ SLt(lon, Start(d, Succ(j)))

ActiveSet(d, lon) == { j \in Positions : Active(d, j, lon) }

\* find_current_ko has been called and has returned or raised
Resolved == pc # "now" /\ pc # "load" /\ pc # "sun" /\ pc # "find" /\ provider = "ok"

\* find_current_ko has returned a value
Returned == Resolved /\ result # NoResult

Called(f) == \E n \in 1..Len(calls) : calls[n] = f

\* C1: on a well-formed table and a longitude in [0,360), exactly one term is
\* active, find_current_ko returns it, and the micro-season returned is that
\* term's ko[ko_index] with ko_index in {0,1,2}.
C1_ExactlyOneTerm ==
    (Resolved /\ WellFormed(data) /\ InRange(longitude)) =>
        /\ Cardinality(ActiveSet(data, longitude)) = 1
        /\ Returned
        /\ result.sekki.name \in ActiveSet(data, longitude)
        /\ result.sekki = data.sekki[result.sekki.name]
        /\ result.ko_index \in 0..MaxKoIndex
        /\ result.ko = result.sekki.ko[result.ko_index + 1]

C1_Witness ==
    /\ Returned /\ WellFormed(data) /\ InRange(longitude)
    /\ ActiveSet(data, longitude) = {result.sekki.name}
    /\ result.ko_index = 1
    /\ result.ko = KoRecord(result.sekki.name, 2)

\* C2 as stated: at a longitude equal to the start of term i, term i is
\* returned with ko_index 0, for every term i of a well-formed table.
C2_EveryTermAtItsStart ==
    (Resolved /\ WellFormed(data)) =>
        \A j \in Positions :
            Start(data, j) = longitude =>
                /\ Returned
                /\ result.sekki = data.sekki[j]
                /\ result.ko_index = 0

\* C2 amended: at a longitude equal to the start of a term i whose range is
\* not empty (its start differs from the next term's start), term i is
\* returned with ko_index 0, and term i-1 is not.
C2_NonEmptyTermAtItsStart ==
    (Resolved /\ WellFormed(data)) =>
        \A j \in Positions :
            (Start(data, j) = longitude /\ Start(data, j) # Start(data, Succ(j))) =>
                /\ Returned
                /\ result.sekki = data.sekki[j]
                /\ result.ko_index = 0
                /\ result.sekki # data.sekki[Pred(j)]

C2_Witness ==
    /\ Returned /\ WellFormed(data)
    /\ \E j \in Positions :
          /\ Start(data, j) = longitude
          /\ Start(data, Pred(j)) = longitude
          /\ Start(data, Succ(j)) # longitude
          /\ result.sekki = data.sekki[j]
          /\ result.ko_index = 0

\* the wrapping term w is the one find_current_ko is about: the longitude is
\* in [start[w], 360) or in [0, start[w+1])
InWrap(d, w, lon) == SLe(Start(d, w), lon) \/ SLt(lon, Start(d, Succ(w)))

\* C3 as stated: every longitude in [start[w], 360) and in [0, start[w+1])
\* resolves to the wrapping term w, and the offset computed for it is
\* nonnegative and strictly less than span = (360 - start[w]) + start[w+1].
C3_Wraparound ==
    (Resolved /\ WellFormed(data) /\ InRange(longitude)) =>
        \A w \in Descents(data) :
            InWrap(data, w, longitude) =>
                /\ Returned
                /\ result.sekki = data.sekki[w]
                /\ frame.set
                /\ frame.span = FAdd(FSub(C360, Start(data, w)), Start(data, Succ(w)))
                /\ SLe(Zero, frame.offset)
                /\ SLt(frame.offset, frame.span)

\* C3 amended: every longitude in [start[w], 360) and in [0, start[w+1])
\* resolves to the wrapping term w, and the offset computed for it is
\* nonnegative and at most span = (360 - start[w]) + start[w+1]; it is
\* computed in floating point and can equal span, and then ko_index is 2.
C3_WraparoundUpToSpan ==
    (Resolved /\ WellFormed(data) /\ InRange(longitude)) =>
        \A w \in Descents(data) :
            InWrap(data, w, longitude) =>
                /\ Returned
                /\ result.sekki = data.sekki[w]
                /\ frame.set
                /\ frame.span = FAdd(FSub(C360, Start(data, w)), Start(data, Succ(w)))
                /\ SLe(Zero, frame.offset)
                /\ SLe(frame.offset, frame.span)
                /\ frame.offset = frame.span => result.ko_index = MaxKoIndex

C3_Witness ==
    /\ Returned /\ WellFormed(data) /\ InRange(longitude)
    /\ \E w \in Descents(data) :
          /\ SLt(longitude, Start(data, Succ(w)))
          /\ result.sekki = data.sekki[w]
          /\ frame.set
          /\ frame.offset = frame.span
          /\ result.ko_index = MaxKoIndex

\* the exact width of the term at position j and the exact distance of lon
\* from its start, both measured forward around the circle
Width(d, j) ==
    IF SLt(Start(d, Succ(j)), Start(d, j))
    THEN SAdd(SSub(C360, Start(d, j)), Start(d, Succ(j)))
    ELSE SSub(Start(d, Succ(j)), Start(d, j))

Distance(d, j, lon) ==
    IF SLe(Start(d, j), lon)
    THEN SSub(lon, Start(d, j))
    ELSE SAdd(SSub(C360, Start(d, j)), lon)

\* n times an exact value, 0 <= n < Base
Times(n, x) == Num(x.neg, BMulSmall(x.mag, n))

\* the exact value x / 2^n, rounded down to the unit
Shr(x, n) == Num(x.neg, BShr(x.mag, n))

Abs(x) == Num(FALSE, x.mag)

\* min(floor(offset / (W / 3)), 2) in exact arithmetic
ExactIndex(off, W) ==
    IF SLt(Times(KoParts, off), W) THEN 0
    ELSE IF SLt(Times(KoParts, off), Times(2, W)) THEN 1
    ELSE MaxKoIndex

\* the term of the first example: start 315, next start 330
ExampleTerm(d, j) ==
    Start(d, j) = FromTicks(315 * Unit) /\ Start(d, Succ(j)) = FromTicks(330 * Unit)

Examples(d, j, lon, index) ==
    ExampleTerm(d, j) =>
        /\ lon = FromTicks(315 * Unit) => index = 0
        /\ lon = Lit319_9 => index = 0
        /\ lon = FromTicks(320 * Unit) => index = 1
        /\ lon = Lit329_99 => index = 2

\* C4 as stated: within a term of width W, ko_index = min(floor(offset /
\* (W/3)), 2): offsets in [0, W/3) give 0, [W/3, 2W/3) give 1, [2W/3, W) give
\* 2, never more than 2; with start 315 and next start 330, longitudes 315.0
\* and 319.9 give 0, 320.0 gives 1 and 329.99 gives 2.
C4_Partition ==
    (Resolved /\ WellFormed(data) /\ InRange(longitude)) =>
        /\ Returned
        /\ LET j == result.sekki.name
               W == Width(data, j)
               off == Distance(data, j, longitude)
           IN  /\ SLt(off, W)
               /\ result.ko_index = ExactIndex(off, W)
               /\ Examples(data, j, longitude, result.ko_index)

\* C4 amended: within a term, ko_index is in {0,1,2} and is decided by the
\* floats the code computes, ko_span = span / 3 and offset: index 0 exactly
\* when offset < ko_span, index 1 when ko_span <= offset < 2 ko_span, index 2
\* when 2 ko_span <= offset.  It is min(floor(offset / (W/3)), 2) of the exact
\* offset and width except within W * 2^-49 of a boundary W/3 or 2W/3 (there
\* the index can be the one of the other side).  The four examples hold.
C4_FloatPartition ==
    (Resolved /\ WellFormed(data) /\ InRange(longitude)) =>
        /\ Returned
        /\ frame.set
        /\ LET j == result.sekki.name
               W == Width(data, j)
               off == Distance(data, j, longitude)
               twice == FAdd(frame.ko_span, frame.ko_span)
           IN  /\ result.ko_index \in 0..MaxKoIndex
               /\ (result.ko_index = 0) = SLt(frame.offset, frame.ko_span)
               /\ (result.ko_index = 1) =
                     (SLe(frame.ko_span, frame.offset) /\ SLt(frame.offset, twice))
               /\ (result.ko_index = 2) = SLe(twice, frame.offset)
               /\ result.ko_index # ExactIndex(off, W) =>
                     \E k \in 1..MaxKoIndex :
                        SLe(Abs(SSub(Times(KoParts, off), Times(k, W))),
                            Shr(W, MantBits - 4))
               /\ Examples(data, j, longitude, result.ko_index)

C4_Witness ==
    /\ Returned /\ WellFormed(data) /\ InRange(longitude)
    /\ frame.set
    /\ result.ko_index = 1
    /\ frame.offset = frame.ko_span
    /\ ExactIndex(Distance(data, result.sekki.name, longitude),
                  Width(data, result.sekki.name)) = 0

\* C5: when no term's range matches the longitude, resolution fails with a
\* ResolutionError and never returns a default term.
C5_NoSilentDefault ==
    (Resolved /\ Len(data.sekki) = NumSekki /\ ActiveSet(data, longitude) = {}) =>
        /\ pc = "crashed"
        /\ raised = "ResolutionError"

\* C6: a table without exactly 24 terms, or with a term without exactly 3
\* micro-seasons, fails the load with DataLoadError, and the run goes no
\* further.
C6_MalformedTableRejected ==
    (Called("load_sekki_data") /\ file.kind = "ok" /\ ~StructureOk(file.json)) =>
        /\ pc = "crashed"
        /\ raised = "DataLoadError"
        /\ calls = <<"load_sekki_data">>

Diagnostics == <<"datetime", "longitude", "sekki", "ko", "emoji", "message">>

\* C7: a delivery attempt never crashes the run: post_to_slack returns True
\* exactly for status 200 and False for any other status or any exception,
\* main reports the outcome and ends with the diagnostics and the message
\* already printed.
C7_DeliveryFailureIsNotFatal ==
    posts > 0 =>
        /\ pc = "done"
        /\ raised = ""
        /\ success = (http.kind = "response" /\ http.status = HttpOk)
        /\ SubSeq(out, 1, Len(Diagnostics)) = Diagnostics
        /\ out[Len(out)] = (IF success THEN "slack_ok" ELSE "slack_failed")

C7_Witness ==
    /\ posts > 0 /\ pc = "done" /\ raised = ""
    /\ http.kind = "exception"
    /\ success = FALSE
    /\ out = Diagnostics \o <<"slack_error", "slack_failed">>

LoadErrors == {"FileNotFoundError", "JSONDecodeError"}

\* C8: the table is loaded before the longitude is computed; a failed load
\* aborts the run before any longitude computation; a failure of the provider
\* leaves main as an exception; in both cases nothing is resolved, formatted
\* or delivered.
C8_UpstreamFailuresAreFatal ==
    /\ Called("get_sun_longitude") =>
          /\ Len(calls) >= 2
          /\ calls[1] = "load_sekki_data"
          /\ calls[2] = "get_sun_longitude"
    /\ (file.kind # "ok" /\ Called("load_sekki_data")) =>
          /\ pc = "crashed"
          /\ raised \in LoadErrors
          /\ calls = <<"load_sekki_data">>
          /\ provider = "idle"
    /\ provider = "failed" =>
          /\ pc = "crashed"
          /\ raised = "OSError"
          /\ calls = <<"load_sekki_data", "get_sun_longitude">>
    /\ (pc = "crashed" /\ (raised \in LoadErrors \/ provider = "failed")) =>
          /\ result = NoResult
          /\ message = NoMessage
          /\ posts = 0
          /\ ~Called("find_current_ko")
          /\ ~Called("format_message")
          /\ ~Called("post_to_slack")

C8_Witness ==
    /\ provider = "failed"
    /\ pc = "crashed"
    /\ raised = "OSError"
    /\ file.kind = "ok"
    /\ calls = <<"load_sekki_data", "get_sun_longitude">>

\* longitude mod 360 (Python's float %): the remainder of the division by
\* 360, taken in [0, 360)
Mod360(x) ==
    LET r == Num(x.neg, BDivMod(x.mag, C360.mag).r)
    IN  IF r.neg THEN FAdd(r, C360) ELSE r

\* C9: for any longitude, in range or not, find_current_ko returns the same
\* term and micro-season index as for the longitude mod 360, and the index is
\* in {0,1,2}.
C9_Normalized ==
    (Resolved /\ WellFormed(data)) =>
        LET r == find_current_ko(Mod360(longitude), data)
        IN  /\ Returned
            /\ result.sekki = r.sekki
            /\ result.ko_index = r.ko_index
            /\ result.ko_index \in 0..MaxKoIndex

\* C10: the instant for which the solar longitude is computed is the instant
\* `now` denotes, the moment of the run.
C10_SameInstant ==
    provider = "ok" =>
        /\ t = from_datetime(now)
        /\ t = clock

====
